---- MODULE Spec2Model ----
(***************************************************************************)
(* State-machine model of the MCP gateway of DevSecOps Arena               *)
(* (src/domains/mcp/gateway): the request router, the session manager, the *)
(* traffic logger and the aiohttp handlers of the gateway server.          *)
(*                                                                         *)
(* The handlers are asyncio coroutines: a handler runs atomically between  *)
(* two awaits.  The only await that matters for the shared state is the    *)
(* outbound httpx call in RequestRouter.route_request, so a POST /mcp is   *)
(* split in two steps: everything up to the outbound send, and everything  *)
(* after the backend's answer (or failure) is known.                       *)
(***************************************************************************)
EXTENDS Integers, Sequences, FiniteSets, TLC

(* ----------------------------- bounds ---------------------------------- *)
\* number of POST /mcp requests the clients submit in one behaviour
MaxPosts == 2
\* number of outbound backend calls that may be awaited at the same time
MaxInflight == 1
\* number of backend calls awaited at the same time when the clients submit
\* requests without waiting for the previous answer
MaxConcurrent == 2
\* latest time of a behaviour, in seconds since the gateway started
MaxClock == 7201
\* number of sessions created by direct calls of SessionManager.create_session
MaxSessions == 2
\* number of touch_session calls (direct, or made by a stream's heartbeat)
MaxTouches == 3
\* largest max_messages a TrafficLogger is constructed with directly
MaxCapacity == 3
\* number of log_request / log_response calls made directly
MaxRecords == 4
\* largest limit get_recent_traffic is called with
MaxLimit == 4

(* --------------------------- value universe ---------------------------- *)
\* Python's None
None == "None"

Challenges == {"c1", "c2"}
Urls == {"http://A", "http://B"}
\* session ids the backend at each address mints
SidsOf(url) == IF url = "http://A" THEN {"a-1", "a-2"} ELSE {"b-1"}
BackendSids == UNION {SidsOf(u) : u \in Urls}

\* JSON scalars, tagged with their JSON type
JStr(s) == [t |-> "str", v |-> s]
JInt(s) == [t |-> "int", v |-> s]
JNull == [t |-> "null", v |-> "null"]
\* a JSON string given item by item; an item is one character or the word
\* ARENA in some casing
JText(chars) == [t |-> "str", chars |-> chars]

\* dict.get(key): the value, or None (JSON null) when the key is absent
Get(d, k) == IF k \in DOMAIN d THEN d[k] ELSE JNull

\* JSON-RPC messages the clients submit that pass parse_message
Call(m, i) == [jsonrpc |-> JStr("2.0"), method |-> JStr(m), id |-> i]
Notification(m) == [jsonrpc |-> JStr("2.0"), method |-> JStr(m)]
ValidMessages == {Call("initialize", JInt("1")), Call("ping", JInt("2")),
                  Notification("ping")}

(* ------------------------- protocol constants -------------------------- *)
SUPPORTED_VERSION == "2025-11-25"
FALLBACK_VERSION == "2025-03-26"

\* httpx request headers built by route_request
OUTBOUND_PROTOCOL_VERSION == "2025-11-25"

\* error codes of route_request
CODE_NO_BACKEND == -32001
CODE_BACKEND_STATUS == -32002
CODE_CONNECT == -32003
CODE_TIMEOUT == -32004
CODE_INTERNAL == -32603
\* response.text[:500]
ERROR_BODY_LIMIT == 500

\* deque(maxlen=max_messages) of the TrafficLogger the gateway constructs
max_messages == 1000

(* ----------------------------- the state ------------------------------- *)
VARIABLES
  active_challenge_id,  \* RequestRouter.active_challenge_id
  backend_servers,      \* RequestRouter.backend_servers: challenge -> url
  session_map,          \* RequestRouter.session_map: gateway sid -> backend sid
  sessions,             \* SessionManager.sessions: sid -> SessionState
  next_session,         \* number of uuid4 session ids minted so far
  traffic_log,          \* TrafficLogger.traffic_log
  now,                  \* datetime.now()
  inflight,             \* route_request coroutines awaiting client.post
  posts,                \* number of POST /mcp requests submitted so far
  route_result,         \* route_request call that returned in the last step
  http_response,        \* HTTP response sent to a client in the last step
  sent,                 \* request put on the wire in the last step
  last_registry_op,     \* history: last registry operation and its url
  supplied_sid,         \* history: sid -> last backend sid a response carried
  traffic_maxlen,       \* TrafficLogger.max_messages (maxlen of traffic_log)
  streams,              \* sessions with a handle_get_mcp stream in its loop
  http_request,         \* HTTP request handled in the last step
  parse_result,         \* parse_message call that returned in the last step
  touches,              \* history: sid -> touch_session calls that found it
  log_history,          \* history: every entry appended to traffic_log
  returned              \* value a directly called query returned last step

vars == <<active_challenge_id, backend_servers, session_map, sessions,
          next_session, traffic_log, now, inflight, posts, route_result,
          http_response, sent, last_registry_op, supplied_sid,
          traffic_maxlen, streams, http_request, parse_result, touches,
          log_history, returned>>

routerVars == <<active_challenge_id, backend_servers>>
histVars == <<last_registry_op, supplied_sid>>
\* what the router, called directly, never reads or writes
serverVars == <<traffic_maxlen, streams, touches, log_history, parse_result,
                returned>>

\* uuid4 tokens, in the order they are minted
SessionIds == {"s1", "s2", "s3", "s4"}
SessionName(n) == CASE n = 1 -> "s1" [] n = 2 -> "s2" [] n = 3 -> "s3"
                    [] OTHER -> "s4"
\* a token no create_session ever returned
UnknownSid == "x-unknown"
ClientSids == SessionIds \cup {UnknownSid}

(* --------------------------- RequestRouter ----------------------------- *)
\* set_active_challenge: the new active_challenge_id
set_active_challenge_id(active, challenge_id) == challenge_id

\* mutant: an already registered challenge keeps its first address
set_active_challenge_servers_keep_first(servers, challenge_id, backend_url) ==
  IF servers[challenge_id] # None THEN servers
  ELSE [servers EXCEPT ![challenge_id] = backend_url]

\* set_active_challenge: the new backend_servers
set_active_challenge_servers(servers, challenge_id, backend_url) ==
  [servers EXCEPT ![challenge_id] = backend_url]

\* mutant: registering a backend evicts the session mappings
set_active_challenge_session_map_evicts(smap) == [s \in DOMAIN smap |-> None]

\* set_active_challenge: the session_map it leaves (it assigns only
\* active_challenge_id and backend_servers)
set_active_challenge_session_map(smap) == smap

\* get_active_backend
get_active_backend(active, servers) ==
  IF active # None THEN servers[active] ELSE None

\* text values: a literal or an f-string (fmt with one argument), or a
\* slice of a backend body
NoChars == [first |-> 1, last |-> 0]
Lit(str) == [fmt |-> str, arg |-> "", chars |-> NoChars]
Fmt(str, a) == [fmt |-> str, arg |-> a, chars |-> NoChars]
Chars(cs) == [fmt |-> "", arg |-> "", chars |-> cs]

\* the error envelopes route_request builds
ErrorEnvelope(code, message, data, id) ==
  [jsonrpc |-> JStr("2.0"),
   error |-> [code |-> code, message |-> message, data |-> data],
   id |-> id]

\* mutant: the "no active backend" envelope loses the request's id
no_backend_result_drops_id(json_rpc_msg) ==
  <<FALSE,
    [jsonrpc |-> JStr("2.0"),
     error |-> [code |-> CODE_NO_BACKEND,
                message |-> [fmt |-> "No active challenge backend",
                             arg |-> "", chars |-> [first |-> 1, last |-> 0]],
                data |-> [fmt |-> "Deploy a challenge first using arena deploy",
                          arg |-> "", chars |-> [first |-> 1, last |-> 0]]],
     id |-> JNull],
    None>>

\* the (success, response_dict, backend_session_id) route_request returns
\* when get_active_backend() is falsy
no_backend_result(json_rpc_msg) ==
  <<FALSE,
    ErrorEnvelope(CODE_NO_BACKEND, Lit("No active challenge backend"),
                  Lit("Deploy a challenge first using arena deploy"),
                  Get(json_rpc_msg, "id")),
    None>>

\* mutant: the mapped backend session is attached to initialize too
backend_session_id_to_send_always(json_rpc_msg, session_id, smap) ==
  IF session_id # None /\ session_id # "" THEN smap[session_id] ELSE None

\* MCP-Session-Id header of the outbound request (None: header not set)
backend_session_id_to_send(json_rpc_msg, session_id, smap) ==
  IF Get(json_rpc_msg, "method") # JStr("initialize") /\ session_id # None
       /\ session_id # ""
  THEN smap[session_id]
  ELSE None

\* headers of the outbound request
outbound_headers(json_rpc_msg, session_id, smap) ==
  [content_type |-> "application/json",
   accept |-> "application/json",
   protocol_version |-> OUTBOUND_PROTOCOL_VERSION,
   session |-> backend_session_id_to_send(json_rpc_msg, session_id, smap)]

(* ------------------------- the backend's answer ------------------------ *)
\* lengths of the body text of a non-success backend response
BodyLens == {2, 500, 501}
\* response.text of a body of n characters: the slice first..last of the body
BodyText(n) == [first |-> 1, last |-> n]
\* str(status_code)
StatusText(st) == CASE st = 200 -> "200" [] st = 404 -> "404" [] OTHER -> "500"

\* MCP-Session-Id header values of a response of the backend at url
\* (None: no header)
BackendSidHeaders(url) == SidsOf(url) \cup {None}

\* what awaiting client.post on the backend at url can produce
Outcome(k, st, sid, ok, n) ==
  [kind |-> k, status |-> st, session |-> sid, json_ok |-> ok, text_len |-> n]
Outcomes(url) ==
  {Outcome("response", 200, sid, TRUE, 0) : sid \in BackendSidHeaders(url)}
  \cup {Outcome("response", 200, sid, FALSE, 0) :
          sid \in {None, CHOOSE x \in SidsOf(url) : TRUE}}
  \cup {Outcome("response", 500, None, FALSE, n) : n \in BodyLens}
  \cup {Outcome("response", 500, CHOOSE x \in SidsOf(url) : TRUE, FALSE,
                501)}
  \cup {Outcome(k, 0, None, FALSE, 0) :
          k \in {"connect_error", "timeout", "exception"}}

\* response.json() of a well-formed backend answer to json_rpc_msg
BackendBody(json_rpc_msg) ==
  [jsonrpc |-> JStr("2.0"), result |-> JStr("ok"),
   id |-> Get(json_rpc_msg, "id")]

\* a 200 answer whose JSON body has the given text as its result
FlagOutcome(text) ==
  [kind |-> "response", status |-> 200, session |-> None, json_ok |-> TRUE,
   text_len |-> 0, result |-> text]
\* response.json() of a backend answer to json_rpc_msg
response_json(json_rpc_msg, outcome) ==
  IF "result" \in DOMAIN outcome
  THEN [jsonrpc |-> JStr("2.0"), result |-> JText(outcome.result),
        id |-> Get(json_rpc_msg, "id")]
  ELSE BackendBody(json_rpc_msg)

\* response.headers.get("MCP-Session-Id") or response.headers.get(...)
response_backend_session_id(outcome) == outcome.session

\* Python truthiness of an optional string
Truthy(x) == x # None /\ x # ""

\* mutant: the mapping is stored for HTTP 200 responses only
store_mapping_only_on_200(smap, session_id, outcome) ==
  IF outcome.kind = "response" /\ outcome.status = 200
       /\ Truthy(outcome.session) /\ Truthy(session_id)
  THEN [smap EXCEPT ![session_id] = outcome.session]
  ELSE smap

\* "if backend_session_id and session_id: self.session_map[...] = ..."
store_mapping(smap, session_id, outcome) ==
  IF outcome.kind = "response"
       /\ Truthy(response_backend_session_id(outcome)) /\ Truthy(session_id)
  THEN [smap EXCEPT ![session_id] = response_backend_session_id(outcome)]
  ELSE smap

\* response.text[:500]
truncate_body(text) ==
  [first |-> text.first,
   last |-> IF text.last - text.first + 1 < ERROR_BODY_LIMIT THEN text.last
            ELSE text.first + ERROR_BODY_LIMIT - 1]

\* mutant: a timeout is reported with the code of "cannot connect"
failure_code_shared(cause) ==
  CASE cause = "status" -> CODE_BACKEND_STATUS
    [] cause = "connect_error" -> CODE_CONNECT
    [] cause = "timeout" -> CODE_CONNECT
    [] OTHER -> CODE_INTERNAL

\* error code of each failure cause
failure_code(cause) ==
  CASE cause = "status" -> CODE_BACKEND_STATUS
    [] cause = "connect_error" -> CODE_CONNECT
    [] cause = "timeout" -> CODE_TIMEOUT
    [] OTHER -> CODE_INTERNAL

\* str(e) of the exception the outbound call ended with
ExceptionText(outcome) ==
  IF outcome.kind = "response" THEN "JSONDecodeError" ELSE "ReadError"

\* id of the error envelopes
error_id(json_rpc_msg) == Get(json_rpc_msg, "id")

\* the tuple route_request returns once the outbound call is over
route_outcome_result(json_rpc_msg, backend_url, outcome) ==
  IF outcome.kind = "response"
  THEN IF outcome.status = 200
       THEN IF outcome.json_ok
            THEN <<TRUE, response_json(json_rpc_msg, outcome),
                   response_backend_session_id(outcome)>>
            ELSE \* response.json() raises, caught by "except Exception"
                 <<FALSE,
                   ErrorEnvelope(failure_code("exception"),
                                 Lit("Internal routing error"),
                                 Lit(ExceptionText(outcome)),
                                 error_id(json_rpc_msg)),
                   None>>
       ELSE <<FALSE,
              ErrorEnvelope(failure_code("status"),
                            Fmt("Backend server error: HTTP {}",
                                StatusText(outcome.status)),
                            Chars(truncate_body(BodyText(outcome.text_len))),
                            error_id(json_rpc_msg)),
              None>>
  ELSE IF outcome.kind = "connect_error"
  THEN <<FALSE,
         ErrorEnvelope(failure_code("connect_error"),
                       Lit("Cannot connect to backend server"),
                       Fmt("Backend at {} is not responding. Is it running?",
                           backend_url),
                       error_id(json_rpc_msg)),
         None>>
  ELSE IF outcome.kind = "timeout"
  THEN <<FALSE,
         ErrorEnvelope(failure_code("timeout"),
                       Lit("Backend server timeout"),
                       Lit("Backend server took too long to respond"),
                       error_id(json_rpc_msg)),
         None>>
  ELSE <<FALSE,
         ErrorEnvelope(failure_code("exception"),
                       Lit("Internal routing error"),
                       Lit(ExceptionText(outcome)),
                       error_id(json_rpc_msg)),
         None>>

\* mutant: a timed-out request is sent once more
after_failure_retry(call, outcome) ==
  IF outcome.kind = "timeout" /\ call.attempts < 2 THEN "resend"
  ELSE "return"

\* what route_request does after the outbound call failed: the except
\* clauses return the error ("return"); there is no loop that sends again
after_failure(call, outcome) == "return"

(* -------------------------- MCPProtocolHandler ------------------------- *)
\* MCP-Protocol-Version header values the clients send (None: no header)
VersionHeaders == {None, SUPPORTED_VERSION, FALLBACK_VERSION, "2024-11-05"}

\* mutant: a declared version is never checked
validate_headers_unchecked(protocol_version) == TRUE

\* validate_headers: is_valid
validate_headers(protocol_version) ==
  IF protocol_version = None \/ protocol_version = ""
  THEN TRUE
  ELSE protocol_version \in {SUPPORTED_VERSION, FALLBACK_VERSION}

\* validate_json_rpc on a JSON object: is_valid
validate_json_rpc(message) ==
  LET is_request == "method" \in DOMAIN message
      is_response == "result" \in DOMAIN message
                       \/ "error" \in DOMAIN message
      is_notification == is_request /\ "id" \notin DOMAIN message
  IN  IF Get(message, "jsonrpc") # JStr("2.0") THEN FALSE
      ELSE IF ~(is_request \/ is_response) THEN FALSE
      ELSE IF is_request /\ Get(message, "method").t # "str" THEN FALSE
      ELSE IF is_request /\ is_notification /\ "id" \in DOMAIN message
      THEN FALSE
      ELSE IF is_request /\ ~is_notification /\ "id" \notin DOMAIN message
      THEN FALSE
      ELSE TRUE

\* validate_json_rpc on a JSON object: error_message
validation_msg(message) ==
  LET is_request == "method" \in DOMAIN message
      is_response == "result" \in DOMAIN message
                       \/ "error" \in DOMAIN message
      is_notification == is_request /\ "id" \notin DOMAIN message
  IN  IF Get(message, "jsonrpc") # JStr("2.0")
      THEN "jsonrpc field must be '2.0'"
      ELSE IF ~(is_request \/ is_response)
      THEN "Message must have 'method' (request/notification) or 'result'/'error' (response)"
      ELSE IF is_request /\ Get(message, "method").t # "str"
      THEN "'method' must be a string"
      ELSE IF is_request /\ is_notification /\ "id" \in DOMAIN message
      THEN "Notifications must not have 'id' field"
      ELSE IF is_request /\ ~is_notification /\ "id" \notin DOMAIN message
      THEN "Requests must have 'id' field"
      ELSE "Valid JSON-RPC 2.0 message"

\* request bodies: text that is not JSON, or a JSON object
NotJson == [kind |-> "not_json", value |-> [jsonrpc |-> JNull]]
\* JSON text whose value is not an object (a list, a number, ...)
NotObject == [kind |-> "json_other", value |-> [jsonrpc |-> JNull]]
JsonBody(m) == [kind |-> "json", value |-> m]
InvalidMessages ==
  {[method |-> JStr("ping"), id |-> JInt("1")],
   [jsonrpc |-> JStr("1.0"), method |-> JStr("ping"), id |-> JInt("2")],
   [jsonrpc |-> JStr("2.0"), id |-> JInt("1")],
   [jsonrpc |-> JStr("2.0"), method |-> JInt("7"), id |-> JInt("1")]}
Bodies == {JsonBody(m) : m \in ValidMessages \cup InvalidMessages}
            \cup {NotJson}

\* parse_message: success
parse_message(body) ==
  IF body.kind # "json" THEN FALSE ELSE validate_json_rpc(body.value)

\* parse_message: error_message
parse_error_msg(body) ==
  IF body.kind = "not_json" THEN Fmt("Invalid JSON: {}", "JSONDecodeError")
  ELSE IF body.kind # "json" THEN Lit("Message must be JSON object")
  ELSE Lit(validation_msg(body.value))

\* parse_message: the (success, parsed_message, error_message) it returns
NoParsed == [none |-> JNull]
parse_message_ret(body) ==
  <<parse_message(body),
    IF parse_message(body) THEN body.value ELSE NoParsed,
    IF parse_message(body) THEN Lit("OK") ELSE parse_error_msg(body)>>

\* the JSON objects parse_message is called with directly: every
\* combination of present and absent fields
Absent == [t |-> "absent", v |-> "absent"]
JNum(s) == [t |-> "num", v |-> s]
JObj(s) == [t |-> "obj", v |-> s]
MkMessage(j, m, r, e, i) ==
  LET all == [jsonrpc |-> j, method |-> m, result |-> r, error |-> e,
              id |-> i]
  IN  [k \in {x \in DOMAIN all : all[x] # Absent} |-> all[k]]
ParseMessages ==
  {MkMessage(j, m, r, e, i) :
     j \in {Absent, JStr("2.0"), JStr("1.0"), JNum("2.0")},
     m \in {Absent, JStr("ping"), JInt("7")},
     r \in {Absent, JStr("ok")},
     e \in {Absent, JObj("error")},
     i \in {Absent, JInt("1"), JNull}}
ParseBodies == {JsonBody(m) : m \in ParseMessages} \cup {NotJson, NotObject}

\* create_error_response(error_code, message, request_id=None, data=None)
create_error_response(error_code, message, request_id) ==
  [jsonrpc |-> JStr("2.0"),
   error |-> [code |-> error_code, message |-> message],
   id |-> request_id]

CODE_PARSE_ERROR == -32700

(* ----------------------------- SessionManager -------------------------- *)
\* SessionState(session_id=..., challenge_id=None)
SessionState(sid, t) ==
  [session_id |-> sid, challenge_id |-> None, created_at |-> t,
   last_active |-> t, message_count |-> 0]

\* create_session: the new table
create_session(table, sid, t) == table @@ (sid :> SessionState(sid, t))

\* mutant: touch puts last_active back to the creation time
touch_backdated(session, t) ==
  [session EXCEPT !.last_active = session.created_at]

\* SessionState.touch
touch(session, t) == [session EXCEPT !.last_active = t]

\* touch_session: the new table
touch_session(table, sid, t) ==
  IF sid \in DOMAIN table
  THEN [table EXCEPT ![sid] = touch(table[sid], t)]
  ELSE table

\* SessionManager(session_timeout_seconds=3600)
session_timeout == 3600

\* get_session: the session, or NoSession for Python's None
NoSession == [session_id |-> None, challenge_id |-> None, created_at |-> 0,
              last_active |-> 0, message_count |-> 0]
get_session(table, sid) ==
  IF sid \in DOMAIN table THEN table[sid] ELSE NoSession

\* delete_session: the new table
delete_session(table, sid) == [s \in DOMAIN table \ {sid} |-> table[s]]

\* mutant: a session idle for exactly the timeout is collected too
stale_sessions_at_timeout(table, t) ==
  {sid \in DOMAIN table : t - table[sid].last_active >= session_timeout}

\* cleanup_stale_sessions: the ids it collects
stale_sessions(table, t) ==
  {sid \in DOMAIN table : t - table[sid].last_active > session_timeout}

\* cleanup_stale_sessions: the new table
cleanup_stale_sessions(table, t) ==
  [s \in DOMAIN table \ stale_sessions(table, t) |-> table[s]]

\* cleanup_stale_sessions: the count it returns
cleanup_stale_sessions_ret(table, t) == Cardinality(stale_sessions(table, t))

(* ------------------------------ TrafficLogger -------------------------- *)
\* mutant: a full buffer drops the new entry instead of the oldest
deque_append_keeps_oldest(log, entry, cap) ==
  IF Len(log) < cap THEN Append(log, entry) ELSE log

\* deque.append on a deque(maxlen=cap)
deque_append(log, entry, cap) ==
  IF Len(log) < cap THEN Append(log, entry)
  ELSE Append(Tail(log), entry)

\* json.dumps of the characters of a string: a quote and a backslash are
\* written with a backslash before them
RECURSIVE json_dumps_chars(_)
json_dumps_chars(chars) ==
  IF chars = <<>> THEN <<>>
  ELSE (IF Head(chars) \in {"\"", "\\"} THEN <<"\\", Head(chars)>>
        ELSE <<Head(chars)>>) \o json_dumps_chars(Tail(chars))

\* json.dumps(message, indent=2), as far as the patterns can tell: the
\* braces of the object and, between them, the quoted result text (every
\* other key and value of the messages here is free of braces and of the
\* texts the patterns look for, and an error object opens and closes its
\* own braces with no such text between them)
message_str(message) ==
  <<"{">>
  \o (IF "result" \in DOMAIN message /\ "chars" \in DOMAIN message.result
      THEN <<"\"">> \o json_dumps_chars(message.result.chars) \o <<"\"">>
      ELSE <<>>)
  \o <<"}">>

\* re.IGNORECASE on the literal ARENA
IsArena(item) == item \in {"ARENA", "arena"}
\* the first index from i on where text has item, 0 if there is none
RECURSIVE index_from(_, _, _)
index_from(text, item, i) ==
  IF i > Len(text) THEN 0
  ELSE IF text[i] = item THEN i
  ELSE index_from(text, item, i + 1)
\* re.finditer(r"ARENA\{[^}]+\}", text, re.IGNORECASE) from index i on: the
\* non-overlapping matches, left to right, as (start, end) with end the
\* index after the match
RECURSIVE flag_finditer(_, _)
flag_finditer(text, i) ==
  IF i > Len(text) THEN <<>>
  ELSE LET close == index_from(text, "}", i + 2)
       IN  IF /\ IsArena(text[i])
              /\ i + 1 <= Len(text)
              /\ text[i + 1] = "{"
              /\ close >= i + 3
           THEN <<[start |-> i, end |-> close + 1]>>
                \o flag_finditer(text, close + 1)
           ELSE flag_finditer(text, i + 1)

\* _detect_vulnerabilities: one finding per match of a pattern (of the six
\* patterns only "Flag Leak" matches anything in the texts here)
detect_vulnerabilities(message) ==
  LET found == flag_finditer(message_str(message), 1)
  IN  [k \in 1..Len(found) |->
         [name |-> "Flag Leak", severity |-> "high", position |-> found[k]]]

\* the entry log_request builds
request_entry(message, session_id, t) ==
  [type |-> "request", direction |-> "client->gateway", timestamp |-> t,
   session_id |-> session_id, message |-> message,
   method |-> Get(message, "method"), request_id |-> JNull,
   is_error |-> FALSE, vulnerabilities |-> detect_vulnerabilities(message)]

\* the entry log_response builds
response_entry(message, request_id, session_id, t) ==
  [type |-> "response", direction |-> "gateway->client", timestamp |-> t,
   session_id |-> session_id, message |-> message,
   method |-> JNull, request_id |-> request_id,
   is_error |-> "error" \in DOMAIN message,
   vulnerabilities |-> detect_vulnerabilities(message)]

\* log_request: the new traffic_log
log_request(log, message, session_id, t) ==
  deque_append(log, request_entry(message, session_id, t), traffic_maxlen)

\* log_response: the new traffic_log
log_response(log, message, request_id, session_id, t) ==
  deque_append(log, response_entry(message, request_id, session_id, t),
               traffic_maxlen)

\* seq[start:], Python's slice from a start index to the end: a negative
\* start counts from the end, and the result is clipped to the sequence
slice_from(seq, start) ==
  LET n == Len(seq)
      from == IF start < 0 THEN (IF start + n < 0 THEN 0 ELSE start + n)
              ELSE (IF start > n THEN n ELSE start)
  IN  SubSeq(seq, from + 1, n)
\* seq[::-1]
reversed(seq) == [i \in 1..Len(seq) |-> seq[Len(seq) - i + 1]]

\* get_recent_traffic: entries[-limit:][::-1]
get_recent_traffic(log, limit) == reversed(slice_from(log, -limit))

(* ----------------------------- MCPGatewayServer ------------------------ *)
\* an HTTP response: status, kind of body ("json", "text", "empty"), the
\* JSON body, the MCP-Session-Id response header (None: not set), and the
\* message of the POST it answers
Resp(status, kind, body, session, request) ==
  [status |-> status, kind |-> kind, body |-> body, session |-> session,
   request |-> request]
NoMessage == [none |-> JNull]
NoResponse == Resp(0, "none", JNull, None, NoMessage)

\* "success, response = await self.router.route_request(...)": the
\* unpacking raises ValueError unless the tuple has exactly two elements
unpacks_to_two(ret) == Len(ret) = 2

\* aiohttp's answer to a handler that raised
InternalServerError(message) == Resp(500, "text", JNull, None, message)

\* handle_post_mcp from the return of route_request to the response:
\* the response, the traffic log and the session table it leaves
after_route(message, session_id, ret, log, table, t) ==
  IF ~unpacks_to_two(ret)
  THEN [http |-> InternalServerError(message), log |-> log, table |-> table,
        logged |-> <<>>, touched |-> FALSE]
  ELSE LET response == ret[2]
           log1 == log_response(log, response, Get(message, "id"),
                                session_id, t)
           entry == response_entry(response, Get(message, "id"), session_id,
                                   t)
       IN  IF Get(message, "method") = JStr("initialize")
           THEN [http |-> Resp(200, "json", response, session_id, message),
                 log |-> log1, table |-> table,
                 logged |-> <<entry>>, touched |-> FALSE]
           ELSE [http |-> IF "id" \in DOMAIN message
                          THEN Resp(200, "json", response, session_id,
                                    message)
                          ELSE Resp(202, "empty", JNull, session_id, message),
                 log |-> log1,
                 table |-> touch_session(table, session_id, t),
                 logged |-> <<entry>>, touched |-> TRUE]

\* an HTTP request: endpoint, MCP-Protocol-Version header (None: not sent),
\* MCP-Session-Id header ("": not sent) and body
NoBody == [kind |-> "none", value |-> [jsonrpc |-> JNull]]
Req(endpoint, version, sid_header, body) ==
  [endpoint |-> endpoint, version |-> version, sid_header |-> sid_header,
   body |-> body]
NoRequest == Req("none", None, "", NoBody)

\* a header value of spaces only, and str.strip() on the header values the
\* clients send
Blank == "  "
strip(h) == IF h = Blank THEN "" ELSE h

\* the history of touch_session(sid) calls, after one more call if did
Touched(tch, table, sid, did) ==
  IF did /\ sid \in DOMAIN table THEN [tch EXCEPT ![sid] = @ + 1] ELSE tch

\* a parse_message call that returned: its argument and the tuple
NoParse == [raw |-> NoBody, ret |-> <<FALSE, NoParsed, Lit("")>>]

(* ------------------------- observations and slots ---------------------- *)
\* a route_request call that returned: its message, whether an active
\* backend was registered when it was made, how its outbound call ended, the
\* number of requests it sent, and the tuple it returned
NoOutcome == Outcome("none", 0, None, FALSE, 0)
RouteRecord(message, registered, outcome, attempts, ret) ==
  [message |-> message, registered |-> registered, outcome |-> outcome,
   attempts |-> attempts, ret |-> ret]
NoRoute == RouteRecord(NoMessage, FALSE, NoOutcome, 0, <<>>)

\* a request on the wire to a backend, with what the history says about the
\* client session when it was sent
NoHeaders == [content_type |-> "", accept |-> "", protocol_version |-> "",
              session |-> None]
SentRecord(url, message, session_id, headers, attempts, supplied) ==
  [backend_url |-> url, message |-> message, session_id |-> session_id,
   headers |-> headers, attempts |-> attempts, supplied |-> supplied]
NoSent == SentRecord(None, NoMessage, None, NoHeaders, 0, None)

\* a route_request coroutine suspended in "await self.client.post(...)"
\* (inflight lists them in the order the requests were sent);
\* via: "router" for a direct call, "gateway" for a call of handle_post_mcp
Awaiting(via, message, session_id, url, registered, attempts) ==
  [via |-> via, message |-> message, session_id |-> session_id,
   backend_url |-> url, registered |-> registered, attempts |-> attempts]

\* s without its i-th element
Remove(s, i) == SubSeq(s, 1, i - 1) \o SubSeq(s, i + 1, Len(s))

\* "no active backend is registered", read off the registry itself
Registered ==
  /\ active_challenge_id # None
  /\ backend_servers[active_challenge_id] # None

\* history lookups; None is not a client session
SuppliedTo(session_id) ==
  IF session_id = None THEN None ELSE supplied_sid[session_id]

\* the value of a query called directly: get_recent_traffic(limit) returns
\* entries, cleanup_stale_sessions() returns count
Returned(op, limit, entries, count) ==
  [op |-> op, limit |-> limit, entries |-> entries, count |-> count]
NoReturn == Returned("none", 0, <<>>, 0)

\* the state after MCPGatewayServer.__init__, with a TrafficLogger of the
\* given max_messages
Constructed(maxlen) ==
  /\ active_challenge_id = None
  /\ backend_servers = [c \in Challenges |-> None]
  /\ session_map = [s \in ClientSids |-> None]
  /\ sessions = [s \in {} |-> None]
  /\ next_session = 0
  /\ traffic_log = <<>>
  /\ now = 0
  /\ inflight = <<>>
  /\ posts = 0
  /\ route_result = NoRoute
  /\ http_response = NoResponse
  /\ sent = NoSent
  /\ last_registry_op = [op |-> "none", url |-> None]
  /\ supplied_sid = [s \in ClientSids |-> None]
  /\ traffic_maxlen = maxlen
  /\ streams = {}
  /\ http_request = NoRequest
  /\ parse_result = NoParse
  /\ touches = [s \in ClientSids |-> 0]
  /\ log_history = <<>>
  /\ returned = NoReturn

\* TrafficLogger() takes the default max_messages
Init == Constructed(max_messages)

gatewayVars == <<sessions, next_session, traffic_log, now, posts>>

(* ------------------------------ registry steps ------------------------- *)
\* POST /admin/register (handle_register_backend)
HandleRegisterBackend(challenge_id, backend_url) ==
  /\ IF challenge_id = "" \/ backend_url = ""
     THEN /\ http_response' = Resp(400, "json", JNull, None, NoMessage)
          /\ UNCHANGED <<routerVars, session_map, last_registry_op>>
     ELSE /\ active_challenge_id' =
               set_active_challenge_id(active_challenge_id, challenge_id)
          /\ backend_servers' =
               set_active_challenge_servers(backend_servers, challenge_id,
                                            backend_url)
          /\ session_map' = set_active_challenge_session_map(session_map)
          /\ http_response' = Resp(200, "json", JNull, None, NoMessage)
          /\ last_registry_op' = [op |-> "register", url |-> backend_url]
  /\ route_result' = NoRoute
  /\ sent' = NoSent
  /\ http_request' = Req("POST /admin/register", None, "", NoBody)
  /\ UNCHANGED <<gatewayVars, inflight, supplied_sid, serverVars>>

\* RequestRouter.unregister_backend of a registered challenge (for any other
\* challenge it returns False and changes nothing)
UnregisterBackend(challenge_id) ==
  /\ backend_servers[challenge_id] # None
  /\ backend_servers' = [backend_servers EXCEPT ![challenge_id] = None]
  /\ active_challenge_id' =
       IF active_challenge_id = challenge_id THEN None
       ELSE active_challenge_id
  /\ last_registry_op' = [op |-> "unregister", url |-> None]
  /\ route_result' = NoRoute
  /\ http_response' = NoResponse
  /\ sent' = NoSent
  /\ http_request' = NoRequest
  /\ UNCHANGED <<session_map, gatewayVars, inflight, supplied_sid,
                 serverVars>>

(* ------------------------------- route steps --------------------------- *)
\* messages and client session ids route_request is called with directly
RouteMessages == ValidMessages
RouteSids == {"s1", "s2"}

\* the history of one answered outbound call
SuppliedAfter(session_id, outcome) ==
  IF outcome.kind = "response" /\ Truthy(outcome.session)
       /\ session_id # None
  THEN [supplied_sid EXCEPT ![session_id] = outcome.session]
  ELSE supplied_sid

\* RequestRouter.route_request(json_rpc_msg, session_id), up to its return
\* (no active backend) or to "await self.client.post(...)"
RouteRequest(json_rpc_msg, session_id) ==
  LET backend_url == get_active_backend(active_challenge_id, backend_servers)
  IN
  /\ http_response' = NoResponse
  /\ http_request' = NoRequest
  /\ UNCHANGED <<routerVars, session_map, gatewayVars, histVars, serverVars>>
  /\ IF backend_url = None
     THEN /\ route_result' = RouteRecord(json_rpc_msg, Registered,
                                         NoOutcome, 0,
                                         no_backend_result(json_rpc_msg))
          /\ sent' = NoSent
          /\ UNCHANGED inflight
     ELSE /\ Len(inflight) < MaxInflight
          /\ inflight' = Append(inflight,
               Awaiting("router", json_rpc_msg, session_id, backend_url,
                        Registered, 1))
          /\ sent' = SentRecord(backend_url, json_rpc_msg, session_id,
                                outbound_headers(json_rpc_msg, session_id,
                                                 session_map),
                                1, SuppliedTo(session_id))
          /\ route_result' = NoRoute

\* the i-th awaited outbound call ends with outcome: the rest of
\* route_request and, for a call made by handle_post_mcp, the rest of the
\* handler
BackendAnswer(i, outcome) ==
  LET c == inflight[i] IN
  /\ UNCHANGED <<routerVars, now, posts, next_session, last_registry_op,
                 traffic_maxlen, streams, parse_result,
                 returned>>
  /\ http_request' = NoRequest
  /\ IF outcome.kind # "response" /\ after_failure(c, outcome) = "resend"
     THEN /\ inflight' = [inflight EXCEPT ![i].attempts = c.attempts + 1]
          /\ sent' = SentRecord(c.backend_url, c.message, c.session_id,
                                outbound_headers(c.message, c.session_id,
                                                 session_map),
                                c.attempts + 1, SuppliedTo(c.session_id))
          /\ route_result' = NoRoute
          /\ http_response' = NoResponse
          /\ UNCHANGED <<session_map, sessions, traffic_log, supplied_sid,
                         touches, log_history>>
     ELSE LET ret == route_outcome_result(c.message, c.backend_url, outcome)
              smap1 == store_mapping(session_map, c.session_id, outcome)
              rest == after_route(c.message, c.session_id, ret, traffic_log,
                                  sessions, now)
          IN  /\ inflight' = Remove(inflight, i)
              /\ session_map' = smap1
              /\ route_result' = RouteRecord(c.message, c.registered, outcome,
                                             c.attempts, ret)
              /\ sent' = NoSent
              /\ supplied_sid' = SuppliedAfter(c.session_id, outcome)
              /\ IF c.via = "gateway"
                 THEN /\ http_response' = rest.http
                      /\ traffic_log' = rest.log
                      /\ sessions' = rest.table
                      /\ log_history' = log_history \o rest.logged
                      /\ touches' = Touched(touches, sessions, c.session_id,
                                            rest.touched)
                 ELSE /\ http_response' = NoResponse
                      /\ UNCHANGED <<traffic_log, sessions, touches,
                                     log_history>>

(* ------------------------------ POST /mcp ------------------------------ *)
\* MCP-Session-Id header values the clients send ("": blank or no header)
SessionHeaders == {""} \cup DOMAIN sessions \cup {UnknownSid}

\* a body request.text() cannot decode
NotText == [kind |-> "not_text", value |-> [jsonrpc |-> JNull]]

\* message of the -32700 response to a body that was not accepted
rejection_msg(body) ==
  IF body.kind = "not_text"
  THEN Fmt("Failed to parse request: {}", "UnicodeDecodeError")
  ELSE parse_error_msg(body)

\* handle_post_mcp up to the first point where it waits for the backend:
\* header validation, session resolution, parsing, the inbound log entry
\* and the first half of route_request; at most limit outbound calls are
\* awaited at a time
HandlePostMcp(limit, version, sid_header, body) ==
  LET fresh == SessionName(next_session + 1)
      token == strip(sid_header)
      session_id == IF token = "" THEN fresh ELSE token
      table1 == IF token = "" THEN create_session(sessions, fresh, now)
                ELSE sessions
      message == body.value
      backend_url == get_active_backend(active_challenge_id, backend_servers)
      log1 == log_request(traffic_log, message, session_id, now)
      entry1 == request_entry(message, session_id, now)
  IN
  /\ posts < MaxPosts
  /\ posts' = posts + 1
  /\ http_request' = Req("POST /mcp", version, sid_header, body)
  /\ UNCHANGED <<routerVars, now, histVars, session_map, traffic_maxlen,
                 streams, parse_result,
                 returned>>
  /\ IF ~validate_headers(version)
     THEN /\ http_response' = Resp(400, "text", JNull, None, NoMessage)
          /\ route_result' = NoRoute
          /\ sent' = NoSent
          /\ UNCHANGED <<sessions, next_session, traffic_log, inflight,
                         touches, log_history>>
     ELSE
       /\ next_session' = IF token = "" THEN next_session + 1
                          ELSE next_session
       /\ IF ~parse_message(body)
          THEN /\ http_response' =
                    Resp(400, "json",
                         create_error_response(CODE_PARSE_ERROR,
                                               rejection_msg(body), JNull),
                         None, NoMessage)
               /\ sessions' = table1
               /\ route_result' = NoRoute
               /\ sent' = NoSent
               /\ UNCHANGED <<traffic_log, inflight, touches, log_history>>
          ELSE
            IF backend_url = None
            THEN \* route_request returns at once; the handler goes on
                 LET ret == no_backend_result(message)
                     rest == after_route(message, session_id, ret, log1,
                                         table1, now)
                 IN  /\ route_result' = RouteRecord(message, Registered,
                                                    NoOutcome, 0, ret)
                     /\ http_response' = rest.http
                     /\ traffic_log' = rest.log
                     /\ sessions' = rest.table
                     /\ log_history' = Append(log_history, entry1)
                                         \o rest.logged
                     /\ touches' = Touched(touches, table1, session_id,
                                           rest.touched)
                     /\ sent' = NoSent
                     /\ UNCHANGED inflight
            ELSE \* route_request awaits self.client.post
                 /\ Len(inflight) < limit
                 /\ inflight' = Append(inflight,
                      Awaiting("gateway", message, session_id, backend_url,
                               Registered, 1))
                 /\ sent' = SentRecord(backend_url, message, session_id,
                                       outbound_headers(message, session_id,
                                                        session_map),
                                       1, SuppliedTo(session_id))
                 /\ traffic_log' = log1
                 /\ log_history' = Append(log_history, entry1)
                 /\ sessions' = table1
                 /\ route_result' = NoRoute
                 /\ http_response' = NoResponse
                 /\ UNCHANGED touches

\* POST /mcp from clients that await at most MaxInflight answers at a time
PostMcp(version, sid_header, body) ==
  HandlePostMcp(MaxInflight, version, sid_header, body)

(* ------------------------------- GET /mcp ------------------------------ *)
\* an open stream: its session and the time its loop last went to sleep
Stream(session_id, t) == [session_id |-> session_id, since |-> t]
\* asyncio.sleep(30)
HEARTBEAT_SECONDS == 30

\* handle_get_mcp up to response.prepare
GetMcp(sid_header) ==
  LET session_id == strip(sid_header)
      session == get_session(sessions, session_id)
  IN
  /\ http_request' = Req("GET /mcp", None, sid_header, NoBody)
  /\ route_result' = NoRoute
  /\ sent' = NoSent
  /\ UNCHANGED <<routerVars, session_map, gatewayVars, inflight, histVars,
                 traffic_maxlen, touches, log_history, parse_result,
                 returned>>
  /\ IF session_id = ""
     THEN /\ http_response' = Resp(400, "text", JNull, None, NoMessage)
          /\ UNCHANGED streams
     ELSE IF session = NoSession
     THEN /\ http_response' = Resp(404, "text", JNull, None, NoMessage)
          /\ UNCHANGED streams
     ELSE /\ http_response' = Resp(200, "stream", JNull, session_id,
                                   NoMessage)
          /\ streams' = streams \cup {Stream(session_id, now)}

\* one turn of the loop of handle_get_mcp: the sleep is over, the heartbeat
\* comment is written and the session is touched
Heartbeat(st) ==
  /\ st \in streams
  /\ now - st.since >= HEARTBEAT_SECONDS
  /\ streams' = (streams \ {st}) \cup {Stream(st.session_id, now)}
  /\ sessions' = touch_session(sessions, st.session_id, now)
  /\ touches' = Touched(touches, sessions, st.session_id, TRUE)
  /\ route_result' = NoRoute
  /\ sent' = NoSent
  /\ http_response' = NoResponse
  /\ http_request' = NoRequest
  /\ UNCHANGED <<routerVars, session_map, next_session, traffic_log, now,
                 posts, inflight, histVars, traffic_maxlen, log_history,
                 parse_result,
                 returned>>

\* the client goes away: the loop is cancelled (or the write raises) and
\* the handler returns
Disconnect(st) ==
  /\ st \in streams
  /\ streams' = streams \ {st}
  /\ route_result' = NoRoute
  /\ sent' = NoSent
  /\ http_response' = NoResponse
  /\ http_request' = NoRequest
  /\ UNCHANGED <<routerVars, session_map, gatewayVars, inflight, histVars,
                 traffic_maxlen, touches, log_history, parse_result,
                 returned>>

(* ------------------------------ GET /status ---------------------------- *)
\* the "sessions" part of the snapshot handle_status returns
StatusBody(table) ==
  [active_count |-> Cardinality(DOMAIN table),
   all_sessions |-> [sid \in DOMAIN table |->
                       [challenge_id |-> table[sid].challenge_id,
                        message_count |-> table[sid].message_count,
                        last_active |-> table[sid].last_active]]]

\* handle_status
HandleStatus ==
  /\ http_request' = Req("GET /status", None, "", NoBody)
  /\ http_response' = Resp(200, "status", StatusBody(sessions), None,
                           NoMessage)
  /\ route_result' = NoRoute
  /\ sent' = NoSent
  /\ UNCHANGED <<routerVars, session_map, gatewayVars, inflight, histVars,
                 serverVars>>

(* -------------------------------- the clock ---------------------------- *)
\* seconds that pass between two steps
TickSeconds == {1800, 3600, 3601}

\* time passes
Tick(d) ==
  /\ now + d <= MaxClock
  /\ now' = now + d
  /\ route_result' = NoRoute
  /\ sent' = NoSent
  /\ http_response' = NoResponse
  /\ http_request' = NoRequest
  /\ returned' = NoReturn
  /\ UNCHANGED <<routerVars, session_map, sessions, next_session,
                 traffic_log, posts, inflight, histVars, traffic_maxlen,
                 streams, touches, log_history, parse_result>>

(* ----------------------- SessionManager, called directly --------------- *)
\* create_session()
CreateSession ==
  /\ next_session < MaxSessions
  /\ next_session' = next_session + 1
  /\ sessions' = create_session(sessions, SessionName(next_session + 1), now)
  /\ returned' = NoReturn
  /\ UNCHANGED <<routerVars, session_map, traffic_log, now, posts, inflight,
                 route_result, http_response, sent, histVars, traffic_maxlen,
                 streams, touches, log_history, parse_result, http_request>>

\* touch_session(session_id)
TouchSession(session_id) ==
  /\ touches[session_id] < MaxTouches
  /\ sessions' = touch_session(sessions, session_id, now)
  /\ touches' = Touched(touches, sessions, session_id, TRUE)
  /\ returned' = NoReturn
  /\ UNCHANGED <<routerVars, session_map, next_session, traffic_log, now,
                 posts, inflight, route_result, http_response, sent, histVars,
                 traffic_maxlen, streams, log_history, parse_result,
                 http_request>>

\* cleanup_stale_sessions()
CleanupStaleSessions ==
  /\ sessions' = cleanup_stale_sessions(sessions, now)
  /\ returned' = Returned("cleanup_stale_sessions", 0, <<>>,
                          cleanup_stale_sessions_ret(sessions, now))
  /\ UNCHANGED <<routerVars, session_map, next_session, traffic_log, now,
                 posts, inflight, route_result, http_response, sent, histVars,
                 traffic_maxlen, streams, touches, log_history, parse_result,
                 http_request>>

(* ------------------------ TrafficLogger, called directly --------------- *)
\* messages and session ids the record calls are made with
LogMessages == {Call("ping", JInt("2")), Notification("ping")}
LogResponses == {BackendBody(Call("ping", JInt("2"))),
                 no_backend_result(Call("ping", JInt("2")))[2]}
LogSids == {"s1"}

\* log_request(message, session_id)
LogRequest(message, session_id) ==
  /\ Len(log_history) < MaxRecords
  /\ traffic_log' = log_request(traffic_log, message, session_id, now)
  /\ log_history' = Append(log_history,
                           request_entry(message, session_id, now))
  /\ returned' = NoReturn
  /\ UNCHANGED <<routerVars, session_map, sessions, next_session, now, posts,
                 inflight, route_result, http_response, sent, histVars,
                 traffic_maxlen, streams, touches, parse_result,
                 http_request>>

\* log_response(message, request_id, session_id)
LogResponse(message, request_id, session_id) ==
  /\ Len(log_history) < MaxRecords
  /\ traffic_log' = log_response(traffic_log, message, request_id,
                                 session_id, now)
  /\ log_history' = Append(log_history,
                           response_entry(message, request_id, session_id,
                                          now))
  /\ returned' = NoReturn
  /\ UNCHANGED <<routerVars, session_map, sessions, next_session, now, posts,
                 inflight, route_result, http_response, sent, histVars,
                 traffic_maxlen, streams, touches, parse_result,
                 http_request>>

\* get_recent_traffic(limit)
GetRecentTraffic(limit) ==
  /\ returned' = Returned("get_recent_traffic", limit,
                          get_recent_traffic(traffic_log, limit), 0)
  /\ UNCHANGED <<routerVars, session_map, gatewayVars, inflight,
                 route_result, http_response, sent, histVars, traffic_maxlen,
                 streams, touches, log_history, parse_result, http_request>>

(* --------------------- MCPProtocolHandler, called directly ------------- *)
\* parse_message(raw_message)
ParseMessage(body) ==
  /\ parse_result' = [raw |-> body, ret |-> parse_message_ret(body)]
  /\ UNCHANGED <<routerVars, session_map, gatewayVars, inflight,
                 route_result, http_response, sent, histVars, traffic_maxlen,
                 streams, touches, log_history, http_request,
                 returned>>

(* ----------------------------- specifications -------------------------- *)
RegisterInputs == (Challenges \X Urls) \cup {<<"", "http://A">>, <<"c1", "">>}
Register == \E in \in RegisterInputs : HandleRegisterBackend(in[1], in[2])
Unregister == \E c \in Challenges : UnregisterBackend(c)
Route == \E m \in RouteMessages, sid \in RouteSids : RouteRequest(m, sid)
Answer == \E i \in 1..Len(inflight) :
            \E o \in Outcomes(inflight[i].backend_url) : BackendAnswer(i, o)
Post == \E v \in VersionHeaders, h \in SessionHeaders, b \in Bodies :
          PostMcp(v, h, b)

\* the router under direct calls of its operations
Next == Register \/ Unregister \/ Route \/ Answer
Spec == Init /\ [][Next]_vars

\* the router when the registry changes only while no outbound call is
\* awaited
NextSequential ==
  \/ (inflight = <<>> /\ Register)
  \/ (inflight = <<>> /\ Unregister)
  \/ Route
  \/ Answer
SpecSequential == Init /\ [][NextSequential]_vars

\* the gateway server under client and operator requests (no endpoint of
\* the server reaches unregister_backend); the operator deploys challenge
\* c1 at address A and challenge c2 at address B
DeployInputs == {<<"c1", "http://A">>, <<"c2", "http://B">>,
                 <<"", "http://A">>, <<"c1", "">>}
Deploy == \E in \in DeployInputs : HandleRegisterBackend(in[1], in[2])
\* one backend outcome of every kind
GatewayOutcomes(url) ==
  {o \in Outcomes(url) :
     /\ o.session \in {None, CHOOSE x \in SidsOf(url) : TRUE}
     /\ o.text_len \in {0, 501}
     /\ (o.session # None => o.status = 200 /\ o.json_ok)}
AnswerPost == \E i \in 1..Len(inflight) :
                \E o \in GatewayOutcomes(inflight[i].backend_url) :
                  BackendAnswer(i, o)
NextGateway == Deploy \/ Post \/ AnswerPost
SpecGateway == Init /\ [][NextGateway]_vars

\* the SessionManager under direct calls of its operations while time
\* passes
TouchSids == {"s1", "s2", UnknownSid}
Create == CreateSession
Touch == \E sid \in TouchSids : TouchSession(sid)
Cleanup == CleanupStaleSessions
Advance == \E d \in TickSeconds : Tick(d)
NextSessionManager == Create \/ Touch \/ Cleanup \/ Advance
SpecSessionManager == Init /\ [][NextSessionManager]_vars

\* the gateway server with no backend deployed, under client requests to
\* POST /mcp, GET /mcp and GET /status while time passes
PostStream == \E h \in SessionHeaders :
                PostMcp(None, h, JsonBody(Call("ping", JInt("2"))))
OpenStream == \E h \in SessionHeaders \cup {Blank} : GetMcp(h)
Beat == \E st \in streams : Heartbeat(st)
Close == \E st \in streams : Disconnect(st)
Status == HandleStatus
\* a pause of exactly the session timeout, or of one second more
Pause == \E d \in {session_timeout, session_timeout + 1} : Tick(d)
NextStream == PostStream \/ OpenStream \/ Beat \/ Close \/ Status \/ Pause
SpecStream == Init /\ [][NextStream]_vars
\* ... when the clients and the operator never stop sending requests
SpecStreamFair ==
  /\ SpecStream
  /\ WF_vars(PostStream) /\ WF_vars(OpenStream) /\ WF_vars(Status)

\* the gateway server with one backend deployed, under clients that submit
\* a second request while the first is awaited
DeployOne == HandleRegisterBackend("c1", "http://A")
PostOrder == \E h \in SessionHeaders :
               \E m \in {Call("initialize", JInt("1")),
                         Call("ping", JInt("2"))} :
                 HandlePostMcp(MaxConcurrent, None, h, JsonBody(m))
NextOrder == DeployOne \/ PostOrder \/ AnswerPost
SpecOrder == Init /\ [][NextOrder]_vars

\* the gateway server under every kind of POST /mcp request
IntakeBodies == Bodies \cup {NotObject, NotText}
PostIntake == \E v \in VersionHeaders, h \in SessionHeaders \cup {Blank},
                 b \in IntakeBodies : PostMcp(v, h, b)
NextIntake == DeployOne \/ PostIntake \/ AnswerPost
SpecIntake == Init /\ [][NextIntake]_vars

\* a TrafficLogger(max_messages=n) under direct calls of its record
\* operations
InitLogger == \E n \in 1..MaxCapacity : Constructed(n)
RecordRequest == \E m \in LogMessages, sid \in LogSids : LogRequest(m, sid)
RecordResponse == \E m \in LogResponses, sid \in LogSids :
                    LogResponse(m, Get(m, "id"), sid)
Recent == \E limit \in 0..MaxLimit : GetRecentTraffic(limit)
NextLogger == RecordRequest \/ RecordResponse \/ Recent
SpecLogger == InitLogger /\ [][NextLogger]_vars

\* the gateway server while the operator deploys one challenge after the
\* other and the clients go on posting
PostRegistry == \E h \in SessionHeaders :
                  \E m \in {Call("initialize", JInt("1")),
                            Call("ping", JInt("2"))} :
                    PostMcp(None, h, JsonBody(m))
NextRegistry == Deploy \/ PostRegistry \/ AnswerPost
SpecRegistry == Init /\ [][NextRegistry]_vars

\* the gateway server in front of a backend whose answers carry flags
FlagTexts == {<<"o", "k">>,
              <<"ARENA", "{", "f", "}">>,
              <<"arena", "{", "\"", "}">>,
              <<"ARENA", "{", "f", "}", "ARENA", "{", "g", "}">>,
              <<"ARENA", "{", "f">>}
PostFindings == \E h \in SessionHeaders :
                  \E m \in {Call("initialize", JInt("1")),
                            Call("ping", JInt("2")), Notification("ping")} :
                    PostMcp(None, h, JsonBody(m))
AnswerFindings == \E i \in 1..Len(inflight) :
                    \E text \in FlagTexts :
                      BackendAnswer(i, FlagOutcome(text))
NextFindings == DeployOne \/ PostFindings \/ AnswerFindings
SpecFindings == Init /\ [][NextFindings]_vars

\* the MCPProtocolHandler under direct calls of parse_message
NextParse == \E b \in ParseBodies : ParseMessage(b)
SpecParse == Init /\ [][NextParse]_vars

(* ================================ claims =============================== *)
\* the response answers a POST /mcp whose message was parsed and routed
AnswersRouted == http_response.request # NoMessage

\* C1: with no backend registered, a call submitted to POST /mcp is answered
\* with a JSON-RPC error envelope whose code is -32001 and whose id is the
\* call's id.
C1_NoBackendCallGetsError ==
  (AnswersRouted /\ route_result # NoRoute /\ ~route_result.registered
     /\ "id" \in DOMAIN http_response.request)
  => /\ http_response.kind = "json"
     /\ "error" \in DOMAIN http_response.body
     /\ http_response.body.error.code = -32001
     /\ http_response.body.id = http_response.request.id

\* C2: route_request called while no active backend is registered returns
\* (False, error envelope with code -32001 and the request's id, None) and
\* puts no request on the wire.
C2_NoBackendRoute ==
  (route_result # NoRoute /\ ~route_result.registered)
  => /\ route_result.ret[1] = FALSE
     /\ route_result.ret[2].jsonrpc = JStr("2.0")
     /\ route_result.ret[2].error.code = -32001
     /\ route_result.ret[2].id = Get(route_result.message, "id")
     /\ route_result.ret[3] = None
     /\ route_result.attempts = 0
     /\ sent = NoSent

\* C2 witness: a call with an id routed after the active challenge was
\* unregistered
C2_Witness ==
  /\ route_result # NoRoute
  /\ ~route_result.registered
  /\ route_result.message = Call("ping", JInt("2"))
  /\ last_registry_op.op = "unregister"

\* C3: a routed message without an id is answered 202 without a body, and a
\* routed message with an id is answered with a JSON-RPC envelope body.
C3_BodyIffCall ==
  AnswersRouted
  => IF "id" \in DOMAIN http_response.request
     THEN /\ http_response.kind = "json"
          /\ http_response.body.jsonrpc = JStr("2.0")
     ELSE /\ http_response.status = 202
          /\ http_response.kind = "empty"

\* C4: handle_post_mcp never ends in an unhandled exception: no POST /mcp is
\* answered with a bare HTTP 500.
C4_HandlerNeverRaises == http_response.status # 500

\* C5: after a register, and until the next unregister, get_active_backend
\* returns the address given in the most recent register.
C5_LatestRegisterWins ==
  last_registry_op.op = "register"
  => get_active_backend(active_challenge_id, backend_servers)
       = last_registry_op.url

\* C5 witness: register(c1, A) then register(c2, B)
C5_Witness ==
  /\ last_registry_op = [op |-> "register", url |-> "http://B"]
  /\ backend_servers["c1"] = "http://A"
  /\ active_challenge_id = "c2"

\* C6: a backend session id attached to a request was supplied by the
\* backend the request is forwarded to (a mapping left by the previous
\* backend is not used).
C6_StaleMappingUnused ==
  (sent # NoSent /\ sent.headers.session # None)
  => sent.headers.session \in SidsOf(sent.backend_url)

\* C7: a non-initialize request routed for client session c carries the
\* backend session id of the most recent backend response for c that
\* supplied one, and no session header when there is none.
C7_HeaderIsLatestSupplied ==
  (sent # NoSent /\ Get(sent.message, "method") # JStr("initialize"))
  => sent.headers.session = sent.supplied

\* C7 witness: s1's mapping was overwritten (a-1 then a-2) and is attached,
\* while s2 has a mapping of its own
C7_Witness ==
  /\ sent # NoSent
  /\ sent.session_id = "s1"
  /\ Get(sent.message, "method") = JStr("ping")
  /\ sent.headers.session = "a-2"
  /\ session_map["s2"] = "a-1"

\* C8: every forwarded request carries the protocol-version header, and an
\* initialize request carries no session header even when a mapping exists.
C8_InitializeSessionless ==
  sent # NoSent
  => /\ sent.headers.protocol_version = "2025-11-25"
     /\ (Get(sent.message, "method") = JStr("initialize")
           => sent.headers.session = None)

\* C8 witness: initialize sent for a client session that has a mapping
C8_Witness ==
  /\ sent # NoSent
  /\ Get(sent.message, "method") = JStr("initialize")
  /\ session_map[sent.session_id] # None

\* C9: each failure cause has its own code (-32003 unreachable, -32004
\* timeout, -32002 non-success status with the status and the first 500
\* characters of the body, -32603 anything else with the exception text),
\* none of them -32001, and the envelope carries the request's id.
C9_FailureCodes ==
  (route_result # NoRoute /\ route_result.outcome # NoOutcome
     /\ ~(route_result.outcome.kind = "response"
            /\ route_result.outcome.status = 200
            /\ route_result.outcome.json_ok))
  => LET o == route_result.outcome
         env == route_result.ret[2]
     IN  /\ route_result.ret[1] = FALSE
         /\ env.id = Get(route_result.message, "id")
         /\ env.error.code # -32001
         /\ (o.kind = "connect_error" <=> env.error.code = -32003)
         /\ (o.kind = "timeout" <=> env.error.code = -32004)
         /\ ((o.kind = "response" /\ o.status # 200)
               <=> env.error.code = -32002)
         /\ ((o.kind = "exception" \/ (o.kind = "response" /\ o.status = 200))
               <=> env.error.code = -32603)
         /\ (env.error.code = -32002
               => /\ env.error.message.arg = StatusText(o.status)
                  /\ env.error.data.chars.first = 1
                  /\ env.error.data.chars.last =
                       (IF o.text_len <= 500 THEN o.text_len ELSE 500))
         /\ (env.error.code = -32603
               => env.error.data.fmt = ExceptionText(o))

\* C9 witness: a non-success status whose body is longer than 500 characters
C9_Witness ==
  /\ route_result # NoRoute
  /\ route_result.outcome.kind = "response"
  /\ route_result.outcome.status = 500
  /\ route_result.outcome.text_len = 501
  /\ route_result.ret[2].error.data.chars.last = 500

\* C10: a route_request call sends at most one request to the backend,
\* whatever the outcome.
C10_AtMostOneSend ==
  /\ sent.attempts <= 1
  /\ route_result.attempts <= 1
  /\ \A i \in 1..Len(inflight) : inflight[i].attempts = 1

\* C10 witness: a call that timed out returned the timeout error after one
\* send
C10_Witness ==
  /\ route_result # NoRoute
  /\ route_result.outcome.kind = "timeout"
  /\ route_result.attempts = 1
  /\ route_result.ret[2].error.code = -32004

\* C11: a session's message_count equals the number of touch_session calls
\* made for it (so every touch increases it by exactly one).
C11_MessageCountIsTouches ==
  \A sid \in DOMAIN sessions : sessions[sid].message_count = touches[sid]

\* the awaited calls whose removal turns inflight into inflight'
AnsweredIndexes == {i \in 1..Len(inflight) : inflight' = Remove(inflight, i)}

\* C12: when the response to an awaited call of a client session is sent,
\* no call of the same session that the gateway accepted earlier is still
\* awaited (responses of one session leave in the order of acceptance).
C12_ResponsesInAcceptOrder ==
  [][\A i \in AnsweredIndexes :
       ((\A k \in AnsweredIndexes : i <= k) /\ http_response' # NoResponse)
       => \A j \in 1..(i - 1) :
            inflight[j].session_id # inflight[i].session_id]_vars

\* the session has been idle longer than the configured timeout
Expired(sid) ==
  /\ sid \in DOMAIN sessions
  /\ now - sessions[sid].last_active > session_timeout

\* C13: GET /mcp answers 400 when the session header is missing or blank,
\* 404 when the session id is unknown or the session has been idle longer
\* than the timeout, and opens the stream only for an existing session that
\* is not expired.
C13_StreamNeedsLiveSession ==
  http_request.endpoint = "GET /mcp"
  => LET sid == strip(http_request.sid_header)
     IN  IF sid = "" THEN http_response.status = 400
         ELSE IF sid \notin DOMAIN sessions \/ Expired(sid)
         THEN http_response.status = 404
         ELSE http_response.status = 200 /\ http_response.kind = "stream"

\* C14: while the clients and the operator keep sending requests (status
\* queries among them), no session stays in the session table, idle longer
\* than the timeout, for ever.
C14_IdleSessionsSwept ==
  \A sid \in SessionIds : []<>(~Expired(sid))

\* the session ids the gateway attributes requests to: in traffic entries,
\* in awaited calls of handle_post_mcp and in the response header
Attributed ==
  {traffic_log[i].session_id : i \in 1..Len(traffic_log)}
  \cup {inflight[i].session_id :
          i \in {k \in 1..Len(inflight) : inflight[k].via = "gateway"}}
  \cup ({http_response.session} \ {None})

\* C15: a POST /mcp that passes header validation creates exactly one
\* session when it carries no session token and none when it carries a
\* known token, and every session id the gateway attributes a request to
\* (and echoes in the response header) is in the session table.
C15_ResolvedSessionExists ==
  [][(http_request'.endpoint = "POST /mcp"
        /\ validate_headers(http_request'.version))
     => LET token == strip(http_request'.sid_header)
        IN  /\ token = ""
                 => /\ DOMAIN sessions \subseteq DOMAIN sessions'
                    /\ Cardinality(DOMAIN sessions') =
                         Cardinality(DOMAIN sessions) + 1
            /\ token \in DOMAIN sessions
                 => DOMAIN sessions' = DOMAIN sessions
            /\ Attributed' \subseteq DOMAIN sessions']_vars

\* C16: after n record calls the traffic buffer holds exactly the last
\* min(n, capacity) appended entries in append order, so its length never
\* exceeds the capacity.
C16_BufferIsLastEntries ==
  LET n == Len(log_history)
      k == IF n < traffic_maxlen THEN n ELSE traffic_maxlen
  IN  /\ Len(traffic_log) <= traffic_maxlen
      /\ traffic_log = SubSeq(log_history, n - k + 1, n)

\* C16 witness: capacity + 1 appends to a buffer of capacity 3, whose oldest
\* entry (a request) is gone and whose newest (a response) is present
C16_Witness ==
  /\ traffic_maxlen = 3
  /\ Len(log_history) = traffic_maxlen + 1
  /\ log_history[1].type = "request"
  /\ \A i \in 1..Len(traffic_log) : traffic_log[i].type = "response"
  /\ traffic_log[Len(traffic_log)] = log_history[Len(log_history)]

\* the POST /mcp handled in the last step passed header validation and its
\* body was not accepted by parse_message
RejectedBody ==
  /\ http_request.endpoint = "POST /mcp"
  /\ validate_headers(http_request.version)
  /\ ~parse_message(http_request.body)

\* the id of a request body, when it is a JSON object with an id field
RecoverableId(body) ==
  IF body.kind = "json" THEN Get(body.value, "id") ELSE JNull

\* C17: a body rejected at parsing never reaches the router and is answered
\* with a -32700 envelope whose id is the body's id when the body is a JSON
\* object with an id field, and null otherwise.
C17_ParseErrorEchoesId ==
  RejectedBody
  => /\ route_result = NoRoute
     /\ sent = NoSent
     /\ http_response.kind = "json"
     /\ http_response.body.error.code = -32700
     /\ http_response.body.id = RecoverableId(http_request.body)

\* C18: a POST /mcp whose body is rejected at parsing appends exactly one
\* inbound entry to the traffic log.
C18_RejectedBodyLogged ==
  [][RejectedBody'
     => /\ Len(log_history') = Len(log_history) + 1
        /\ log_history'[Len(log_history')].direction = "client->gateway"
        /\ traffic_log'[Len(traffic_log')] =
             log_history'[Len(log_history')]]_vars

\* the request declares a protocol version that is neither the current nor
\* the fallback one
UnsupportedVersion(version) ==
  version \notin {None, "", SUPPORTED_VERSION, FALLBACK_VERSION}

RequestShape(message) == "method" \in DOMAIN message
ResponseShape(message) ==
  "result" \in DOMAIN message \/ "error" \in DOMAIN message

\* C20: parse_message accepts a body if and only if it is a JSON object whose
\* jsonrpc is the string "2.0" and which has exactly one of the request
\* shape (a method, which is a string) and the response shape (a result or
\* an error).
C20_AcceptsIffOneShape ==
  parse_result # NoParse
  => (parse_result.ret[1]
        <=> /\ parse_result.raw.kind = "json"
            /\ LET message == parse_result.raw.value
               IN  /\ Get(message, "jsonrpc") = JStr("2.0")
                   /\ RequestShape(message) # ResponseShape(message)
                   /\ (RequestShape(message)
                         => Get(message, "method").t = "str"))

\* the gateway-specific condition a returned route_request call ended in
\* ("status": the backend answered with a non-success status, which is the
\* backend's failure; "delivered": the call succeeded)
GatewayCondition(call) ==
  CASE call.outcome = NoOutcome -> "no_backend"
    [] call.outcome.kind = "connect_error" -> "connect_error"
    [] call.outcome.kind = "timeout" -> "timeout"
    [] call.outcome.kind = "exception" -> "internal"
    [] call.outcome.kind = "response" /\ call.outcome.status = 200
         /\ ~call.outcome.json_ok -> "internal"
    [] call.outcome.kind = "response" /\ call.outcome.status = 200 ->
         "delivered"
    [] OTHER -> "status"
GatewayConditions == {"no_backend", "connect_error", "timeout", "internal"}
\* the code route_request emits for a gateway-specific condition
EmittedCode(condition) ==
  LET m == Call("ping", JInt("2")) IN
  IF condition = "no_backend" THEN no_backend_result(m)[2].error.code
  ELSE route_outcome_result(
         m, "http://A",
         Outcome(IF condition = "internal" THEN "exception" ELSE condition,
                 0, None, FALSE, 0))[2].error.code
\* the range of the custom (server) error codes
CustomRange == (-32099)..(-32000)

\* C21: the codes emitted for no active backend, backend unreachable,
\* backend timeout and internal failure are pairwise distinct, all lie in
\* the custom range -32000..-32099, and none is the parse-error (-32700) or
\* the method-not-found (-32601) code.
C21_GatewayCodesInCustomRange ==
  (route_result # NoRoute
     /\ GatewayCondition(route_result) \in GatewayConditions)
  => LET code == route_result.ret[2].error.code
     IN  /\ code = EmittedCode(GatewayCondition(route_result))
         /\ code \in CustomRange
         /\ code \notin {-32700, -32601}
         /\ \A other \in GatewayConditions :
              other # GatewayCondition(route_result)
              => EmittedCode(other) # code

\* C22: a successful register (set_active_challenge) leaves every
\* client session -> backend session mapping as it was, and leaves the
\* session table and the traffic buffer unchanged.
C22_RegisterKeepsMappings ==
  [][(http_request'.endpoint = "POST /admin/register"
        /\ http_response'.status = 200)
     => /\ \A s \in DOMAIN session_map :
             session_map[s] # None
             => (s \in DOMAIN session_map' /\ session_map'[s] = session_map[s])
        /\ sessions' = sessions
        /\ traffic_log' = traffic_log]_vars

\* C22 witness: another backend was registered while a session with a
\* mapping and logged traffic existed
C22_Witness ==
  /\ http_request.endpoint = "POST /admin/register"
  /\ http_response.status = 200
  /\ last_registry_op.url = "http://B"
  /\ \E s \in DOMAIN sessions : session_map[s] = "a-1"
  /\ traffic_log # <<>>

\* the findings of an entry that name the rule
FindingsNamed(entry, rule) ==
  SelectSeq(entry.vulnerabilities, LAMBDA f : f.name = rule)

\* C23: when a delivered backend response whose text has exactly one
\* occurrence of the flag marker passes through the gateway, the traffic
\* entry recorded for that response has exactly one "Flag Leak" finding.
C23_OneMarkerOneFinding ==
  [][(/\ route_result' # NoRoute
      /\ "result" \in DOMAIN route_result'.outcome
      /\ Len(flag_finditer(route_result'.outcome.result, 1)) = 1)
     => /\ Len(log_history') = Len(log_history) + 1
        /\ LET entry == log_history'[Len(log_history')]
           IN  /\ entry.type = "response"
               /\ entry.message = route_result'.ret[2]
               /\ Len(FindingsNamed(entry, "Flag Leak")) = 1]_vars

\* the smaller of two numbers
Min(a, b) == IF a < b THEN a ELSE b

\* C24: get_recent_traffic(limit), for every limit >= 0, returns the
\* min(limit, size) most recently appended entries of the buffer, newest
\* first; it never returns more than limit entries (none for limit 0).
C24_RecentIsNewestFirst ==
  returned.op = "get_recent_traffic"
  => LET n == Min(returned.limit, Len(traffic_log))
     IN  /\ Len(returned.entries) = n
         /\ \A k \in 1..n :
              returned.entries[k] = traffic_log[Len(traffic_log) - k + 1]

C26_LoggedRoutedLoggedTouched ==
  [][route_result' # NoRoute
     => LET message == route_result'.message
            n == Len(log_history')
        IN  /\ n >= 2
            /\ n > Len(log_history)
            /\ log_history'[n].type = "response"
            /\ log_history'[n].message = route_result'.ret[2]
            /\ log_history'[n].request_id = Get(message, "id")
            /\ \E k \in 1..(n - 1) :
                 /\ log_history'[k].type = "request"
                 /\ log_history'[k].message = message
                 /\ log_history'[k].session_id = log_history'[n].session_id
            /\ LET sid == log_history'[n].session_id
               IN  /\ sid \in DOMAIN sessions'
                      => /\ touches'[sid] = touches[sid] + 1
                         /\ sessions'[sid].last_active = now'
                   /\ http_response'.status \in {200, 202}
                   /\ http_response'.session = sid]_vars

\* C27: cleanup_stale_sessions removes exactly the sessions idle for more
\* than the timeout (now - last_active > session_timeout), leaves every
\* other session as it was, and returns the number of sessions it removed.
C27_SweepRemovesExactlyStale ==
  [][returned'.op = "cleanup_stale_sessions"
     => LET removed == DOMAIN sessions \ DOMAIN sessions'
        IN  /\ removed = {sid \in DOMAIN sessions :
                            now - sessions[sid].last_active > session_timeout}
            /\ DOMAIN sessions' \subseteq DOMAIN sessions
            /\ \A sid \in DOMAIN sessions' : sessions'[sid] = sessions[sid]
            /\ returned'.count = Cardinality(removed)]_vars

\* C27 witness: a sweep removed one session and kept one that had been idle
\* for exactly the timeout
C27_Witness ==
  /\ returned.op = "cleanup_stale_sessions"
  /\ returned.count = 1
  /\ \E sid \in DOMAIN sessions :
       now - sessions[sid].last_active = session_timeout

\* C28: every session mapping written while a backend is active was
\* supplied by that backend: the session id of a late response of a backend
\* that has been replaced in the meantime is not stored.
C28_MappingFromActiveBackend ==
  [][\A s \in DOMAIN session_map :
       LET active == get_active_backend(active_challenge_id',
                                        backend_servers')
       IN  (session_map'[s] # session_map[s] /\ session_map'[s] # None
              /\ active # None)
           => session_map'[s] \in SidsOf(active)]_vars

\* C29: a response to a POST /mcp that created a session, a 400 parse-error
\* response included, carries the new session's id in its MCP-Session-Id
\* header.
C29_CreatedSessionReturned ==
  [][(/\ http_request'.endpoint = "POST /mcp"
      /\ DOMAIN sessions' # DOMAIN sessions
      /\ http_response' # NoResponse)
     => /\ http_response'.session # None
        /\ DOMAIN sessions' = DOMAIN sessions \cup {http_response'.session}
    ]_vars

\* C30: a route_request call that returns success = False leaves the session
\* map unchanged, and the call returns a backend session id exactly when it
\* wrote the mapping of its client session.
C30_MapChangesOnlyWhenDelivered ==
  [][route_result' # NoRoute
     => /\ ~route_result'.ret[1] => session_map' = session_map
        /\ route_result'.ret[3] = None => session_map' = session_map
        /\ route_result'.ret[3] # None
           => \E s \in DOMAIN session_map :
                session_map'[s] = route_result'.ret[3]]_vars

====
